---- MODULE Spec2Model ----
(***************************************************************************)
(* Model of src/webversion.py: the box-contents pipeline run on one        *)
(* uploaded workbook (load, schema check, normalisation, pivot, totals,    *)
(* carton-weight scan, dimension scan, report assembly, footers, preview). *)
(*                                                                         *)
(* Text is a sequence of one-character strings, so that the string         *)
(* operations of the code (strip, regex replace, zfill, split, float) are  *)
(* computed character by character.  A decimal number is a record          *)
(* [m, e] standing for m / 10^e, kept in lowest form.                      *)
(***************************************************************************)
EXTENDS Integers, Sequences, FiniteSets, TLC

\* ------------------------------------------------------------ characters

Digits == {"0", "1", "2", "3", "4", "5", "6", "7", "8", "9"}

Letters ==
    {"a", "b", "c", "d", "e", "f", "g", "h", "i", "j", "k", "l", "m",
     "n", "o", "p", "q", "r", "s", "t", "u", "v", "w", "x", "y", "z",
     "A", "B", "C", "D", "E", "F", "G", "H", "I", "J", "K", "L", "M",
     "N", "O", "P", "Q", "R", "S", "T", "U", "V", "W", "X", "Y", "Z"}

\* Python's str.strip() / float() whitespace.
Whitespace == {" ", "\t", "\n"}

\* The regex class \w, which decides where \b holds.
IsWordChar(c) == c \in Digits \cup Letters \cup {"_"}

\* The characters of the model in code-point order (for sorting text).
CodePoints ==
    <<"\t", "\n", " ", "+", "-", ".",
      "0", "1", "2", "3", "4", "5", "6", "7", "8", "9",
      "A", "B", "C", "D", "E", "F", "G", "H", "I", "J", "K", "L", "M",
      "N", "O", "P", "Q", "R", "S", "T", "U", "V", "W", "X", "Y", "Z", "_",
      "a", "b", "c", "d", "e", "f", "g", "h", "i", "j", "k", "l", "m",
      "n", "o", "p", "q", "r", "s", "t", "u", "v", "w", "x", "y", "z">>

Ord(c) == CHOOSE i \in 1..Len(CodePoints) : CodePoints[i] = c

DigitVal(c) == Ord(c) - Ord("0")

DigitChar(d) == CodePoints[Ord("0") + d]

\* ------------------------------------------------------------------ text

RECURSIVE TextLess(_, _)
\* s < t for Python strings (lexicographic by code point).
TextLess(s, t) ==
    IF t = <<>> THEN FALSE
    ELSE IF s = <<>> THEN TRUE
    ELSE IF Head(s) # Head(t) THEN Ord(Head(s)) < Ord(Head(t))
    ELSE TextLess(Tail(s), Tail(t))

RECURSIVE LStrip(_)
LStrip(s) ==
    IF s # <<>> /\ Head(s) \in Whitespace THEN LStrip(Tail(s)) ELSE s

RECURSIVE RStrip(_)
RStrip(s) ==
    IF s # <<>> /\ s[Len(s)] \in Whitespace
    THEN RStrip(SubSeq(s, 1, Len(s) - 1))
    ELSE s

\* str.strip()
Strip(s) == RStrip(LStrip(s))

EndsWith(s, suffix) ==
    /\ Len(s) >= Len(suffix)
    /\ SubSeq(s, Len(s) - Len(suffix) + 1, Len(s)) = suffix

\* .str.replace(r"\.0$", "", regex=True): "$" matches at the end of the text
\* and also just before a newline that ends the text.
\* (the same with the dot left unescaped, r".0$": any character before the 0)
StripDotZeroMutant(s) ==
    IF Len(s) >= 2 /\ s[Len(s)] = "0" /\ s[Len(s) - 1] # "\n"
    THEN SubSeq(s, 1, Len(s) - 2)
    ELSE s

StripDotZero(s) ==
    IF EndsWith(s, <<".", "0">>) THEN SubSeq(s, 1, Len(s) - 2)
    ELSE IF EndsWith(s, <<".", "0", "\n">>)
         THEN SubSeq(s, 1, Len(s) - 3) \o <<"\n">>
         ELSE s

\* .str.replace("+", "", regex=False)
RemovePlus(s) == SelectSeq(s, LAMBDA c : c # "+")

Zeros(n) == [i \in 1..n |-> "0"]

ZFillWidth == 12

\* .str.zfill(width): pads on the left with "0"; a leading sign stays first
\* (str.zfill).  No identifier of the workbooks below starts with a sign
\* once its "+" are removed.
\* (ZFillMutant: the width taken one too small)
ZFillMutant(s, width) ==
    IF Len(s) >= width - 1 THEN s ELSE Zeros(width - 1 - Len(s)) \o s

ZFill(s, width) ==
    IF Len(s) >= width THEN s
    ELSE IF s # <<>> /\ Head(s) \in {"+", "-"}
         THEN <<Head(s)>> \o Zeros(width - Len(s)) \o Tail(s)
         ELSE Zeros(width - Len(s)) \o s

RECURSIVE NatText(_)
\* str(n) for an integer n >= 0
NatText(n) ==
    IF n < 10 THEN <<DigitChar(n)>>
    ELSE NatText(n \div 10) \o <<DigitChar(n % 10)>>

IntText(n) == IF n < 0 THEN <<"-">> \o NatText(-n) ELSE NatText(n)

RECURSIVE Pow10(_)
Pow10(e) == IF e = 0 THEN 1 ELSE 10 * Pow10(e - 1)

AllDigits(s) == \A i \in 1..Len(s) : s[i] \in Digits

RECURSIVE DigitsVal(_)
\* the integer written by a text of digits
DigitsVal(s) ==
    IF s = <<>> THEN 0
    ELSE 10 * DigitsVal(SubSeq(s, 1, Len(s) - 1)) + DigitVal(s[Len(s)])

\* --------------------------------------------------------------- decimals

RECURSIVE Norm(_)
\* m / 10^e in lowest form
Norm(d) ==
    IF d.e > 0 /\ d.m % 10 = 0 THEN Norm([m |-> d.m \div 10, e |-> d.e - 1])
    ELSE d

Dec(m, e) == Norm([m |-> m, e |-> e])

\* int(x) of a float: truncation towards zero (\div rounds down)
Trunc(d) ==
    IF d.m >= 0 THEN d.m \div Pow10(d.e) ELSE -((-d.m) \div Pow10(d.e))

\* repr of a float with a finite decimal form: "123.0", "2.5", "-0.5"
FloatText(d) ==
    LET a == IF d.m < 0 THEN -d.m ELSE d.m
        sign == IF d.m < 0 THEN <<"-">> ELSE <<>>
        whole == NatText(a \div Pow10(d.e))
        frac == a % Pow10(d.e)
        fracText == NatText(frac)
    IN  IF d.e = 0 THEN sign \o whole \o <<".", "0">>
        ELSE sign \o whole \o <<".">> \o Zeros(d.e - Len(fracText)) \o fracText

\* The plain decimal forms float() and pd.to_numeric() accept:
\* [sign] digits [. [digits]]  or  [sign] . digits, whitespace around allowed.
UnsignedDecimalOk(t) ==
    \E k \in 0..Len(t) :
        LET w == SubSeq(t, 1, k)
            rest == SubSeq(t, k + 1, Len(t))
        IN  /\ AllDigits(w)
            /\ \/ rest = <<>> /\ w # <<>>
               \/ /\ rest # <<>>
                  /\ Head(rest) = "."
                  /\ AllDigits(Tail(rest))
                  /\ (w # <<>> \/ Tail(rest) # <<>>)

Unsigned(t) == IF t # <<>> /\ Head(t) \in {"+", "-"} THEN Tail(t) ELSE t

IsDecimalText(s) == UnsignedDecimalOk(Unsigned(Strip(s)))

DecimalOf(s) ==
    LET t == Strip(s)
        u == Unsigned(t)
        neg == t # <<>> /\ Head(t) = "-"
        dot == IF \E i \in 1..Len(u) : u[i] = "."
               THEN CHOOSE i \in 1..Len(u) : u[i] = "."
               ELSE Len(u) + 1
        w == SubSeq(u, 1, dot - 1)
        f == SubSeq(u, dot + 1, Len(u))
        mag == DigitsVal(w) * Pow10(Len(f)) + DigitsVal(f)
    IN  Dec(IF neg THEN -mag ELSE mag, Len(f))

\* ------------------------------------------------------------ cell values

\* A cell as pandas / openpyxl hand it over: empty (None, NaN), an int, a
\* float, a bool or text.
NoneCell == [kind |-> "none"]
IntCell(n) == [kind |-> "int", n |-> n]
FloatCell(m, e) == [kind |-> "float", d |-> Dec(m, e)]
BoolCell(b) == [kind |-> "bool", b |-> b]
TextCell(s) == [kind |-> "str", s |-> s]

\* pandas isna(): the rows dropna() removes
IsNull(c) == c.kind = "none"

\* str(value), as .astype(str) and str(row[col]) compute it
CellText(c) ==
    CASE c.kind = "none" -> <<"n", "a", "n">>
      [] c.kind = "int" -> IntText(c.n)
      [] c.kind = "float" -> FloatText(c.d)
      [] c.kind = "bool" -> IF c.b THEN <<"T", "r", "u", "e">>
                                   ELSE <<"F", "a", "l", "s", "e">>
      [] c.kind = "str" -> c.s

\* isinstance(value, (int, float)); Python's bool is a subclass of int.
IsNumber(c) == c.kind \in {"int", "float", "bool"}

\* the number a numeric cell holds, as a decimal
NumberOf(c) ==
    CASE c.kind = "int" -> Dec(c.n, 0)
      [] c.kind = "float" -> c.d
      [] c.kind = "bool" -> Dec(IF c.b THEN 1 ELSE 0, 0)

DecAdd(a, b) ==
    LET e == IF a.e > b.e THEN a.e ELSE b.e
    IN  Dec(a.m * Pow10(e - a.e) + b.m * Pow10(e - b.e), e)

RECURSIVE SumNumbers(_)
\* sum([w for w in cells if isinstance(w, (int, float))])
SumNumbers(cells) ==
    IF cells = <<>> THEN Dec(0, 0)
    ELSE IF IsNumber(Head(cells))
         THEN DecAdd(NumberOf(Head(cells)), SumNumbers(Tail(cells)))
         ELSE SumNumbers(Tail(cells))

\* ------------------------------------------------- sorting and collecting

Range(s) == {s[i] : i \in 1..Len(s)}

RECURSIVE SortedInts(_)
SortedInts(S) ==
    IF S = {} THEN <<>>
    ELSE LET x == CHOOSE y \in S : \A z \in S : y <= z
         IN  <<x>> \o SortedInts(S \ {x})

RECURSIVE SortedTexts(_)
SortedTexts(S) ==
    IF S = {} THEN <<>>
    ELSE LET x == CHOOSE y \in S : \A z \in S \ {y} : TextLess(y, z)
         IN  <<x>> \o SortedTexts(S \ {x})

RECURSIVE SumQty(_)
SumQty(recs) == IF recs = <<>> THEN 0 ELSE Head(recs).Qty + SumQty(Tail(recs))

\* ------------------------------------------------------ dimension pattern

\* The positions where a match of \d{1,3}\.\d{1,2} that starts at s[i] can end.
NumberEnds(s, i) ==
    {j \in i..Len(s) :
        \E a \in 1..3, b \in 1..2 :
            /\ j = i + a + b
            /\ AllDigits(SubSeq(s, i, i + a - 1))
            /\ s[i + a] = "."
            /\ AllDigits(SubSeq(s, i + a + 1, j))}

\* \b after s[j], where s[j] is a word character
BoundaryAfter(s, j) == j = Len(s) \/ ~IsWordChar(s[j + 1])

\* re.match(dimension_pattern, val): anchored at the start of the text only.
\* The leading \b holds because the first character matched is a digit.
DimensionMatch(s) ==
    \E j1 \in NumberEnds(s, 1) :
        /\ j1 + 1 <= Len(s) /\ s[j1 + 1] = "X"
        /\ \E j2 \in NumberEnds(s, j1 + 2) :
            /\ j2 + 1 <= Len(s) /\ s[j2 + 1] = "X"
            /\ \E j3 \in NumberEnds(s, j2 + 2) : BoundaryAfter(s, j3)

RECURSIVE Split(_, _)
\* val.split(sep) for a one-character separator
Split(s, sep) ==
    IF \E i \in 1..Len(s) : s[i] = sep
    THEN LET i == CHOOSE k \in 1..Len(s) :
                      s[k] = sep /\ \A l \in 1..(k - 1) : s[l] # sep
         IN  <<SubSeq(s, 1, i - 1)>> \o Split(SubSeq(s, i + 1, Len(s)), sep)
    ELSE <<s>>

\* length, width, height = val.split("X") and the three float() calls:
\* a ValueError when there are not three parts or a part is no number.
ParseTriple(s) ==
    LET parts == Split(s, "X")
    IN  IF Len(parts) = 3 /\ \A i \in 1..3 : IsDecimalText(parts[i])
        THEN [ok |-> TRUE,
              triple |-> [i \in 1..3 |-> DecimalOf(parts[i])]]
        ELSE [ok |-> FALSE, triple |-> <<>>]

\* every cell of the table, rows outer, columns inner
RECURSIVE CellsRowMajor(_)
CellsRowMajor(rows) ==
    IF rows = <<>> THEN <<>> ELSE Head(rows) \o CellsRowMajor(Tail(rows))

RECURSIVE ScanDimensions(_)
\* The loop of lines 91-98 over the cells in scan order: the triples
\* appended, or the exception that ends the run.
ScanDimensions(cells) ==
    IF cells = <<>> THEN [ok |-> TRUE, data |-> <<>>]
    ELSE LET val == CellText(Head(cells))
         IN  IF DimensionMatch(val)
             THEN LET t == ParseTriple(val)
                      rest == ScanDimensions(Tail(cells))
                  IN  IF ~t.ok THEN [ok |-> FALSE, data |-> <<>>]
                      ELSE IF ~rest.ok THEN rest
                      ELSE [ok |-> TRUE, data |-> <<t.triple>> \o rest.data]
             ELSE ScanDimensions(Tail(cells))

\* -------------------------------------------------------- pipeline stages

T_UPC == <<"U", "P", "C">>
T_BoxX == <<"B", "o", "x", " ", "X">>
T_SkuUnits == <<"S", "k", "u", " ", "U", "n", "i", "t", "s">>

required_columns == <<T_UPC, T_BoxX, T_SkuUnits>>

\* df.columns.astype(str).str.strip()
StripColumns(header) == [i \in 1..Len(header) |-> Strip(header[i])]

\* [c for c in required_columns if c not in df.columns]
MissingColsMutant(columns) ==
    LET absent == SelectSeq(required_columns, LAMBDA c : c \notin Range(columns))
    IN  IF absent = <<>> THEN <<>> ELSE <<absent[1]>>

MissingCols(columns) ==
    SelectSeq(required_columns, LAMBDA c : c \notin Range(columns))

\* the position of a column of the table (column names are distinct)
ColIndex(columns, name) == CHOOSE i \in 1..Len(columns) : columns[i] = name

\* dropna(subset=["UPC", "Sku Units"]): the rows that stay
KeepRowMutant(upc, units) == ~IsNull(upc)

KeepRow(upc, units) == ~IsNull(upc) /\ ~IsNull(units)

\* lines 35-41
NormalizeUPC(c) ==
    ZFill(RemovePlus(StripDotZero(CellText(c))), ZFillWidth)

\* pd.to_numeric(..., errors="coerce").fillna(0).astype(int), for a cell that
\* is a number, text or empty: text that is no number becomes NaN, NaN
\* becomes 0, and a float is cut to its integer part.
CoerceQty(c) ==
    CASE c.kind = "int" -> c.n
      [] c.kind = "float" -> Trunc(c.d)
      [] c.kind = "str" ->
            IF IsDecimalText(c.s) THEN Trunc(DecimalOf(c.s)) ELSE 0
      [] c.kind = "none" -> 0

\* lines 34-49: the cleaned records, each with the index label of its row
BoxContents(table) ==
    LET u == ColIndex(table.columns, T_UPC)
        b == ColIndex(table.columns, T_BoxX)
        q == ColIndex(table.columns, T_SkuUnits)
        kept == SortedInts({i \in 1..Len(table.rows) :
                               KeepRow(table.rows[i][u], table.rows[i][q])})
    IN  [k \in 1..Len(kept) |->
            [index |-> kept[k],
             UPC |-> NormalizeUPC(table.rows[kept[k]][u]),
             BoxNumber |-> table.rows[kept[k]][b],
             Qty |-> CoerceQty(table.rows[kept[k]][q])]]

Blank == TextCell(<<>>)

\* lines 52-60: groups whose key is null are left out by the group-by; the
\* index and the columns are sorted; an absent pair is 0; every 0 becomes "".
PivotTable(recs) ==
    LET keyed == SelectSeq(recs, LAMBDA r : ~IsNull(r.BoxNumber))
        upcs == {keyed[i].UPC : i \in 1..Len(keyed)}
        boxes == {keyed[i].BoxNumber.n : i \in 1..Len(keyed)}
        total(u, b) ==
            SumQty(SelectSeq(keyed, LAMBDA r : r.UPC = u /\ r.BoxNumber.n = b))
    IN  [index |-> SortedTexts(upcs),
         columns |-> SortedInts(boxes),
         cell |-> [u \in upcs, b \in boxes |->
                      IF total(u, b) = 0 THEN Blank ELSE IntCell(total(u, b))]]

EmptyPivot == [index |-> <<>>, columns |-> <<>>, cell |-> <<>>]

\* df_clean["Box Number"].nunique(): null is not counted
NUnique(recs) ==
    Cardinality({recs[i].BoxNumber : i \in 1..Len(recs)} \ {NoneCell})

\* carton_weights[:-1]
DropLastMutant(ws) == Tail(ws)

DropLast(ws) == SubSeq(ws, 1, Len(ws) - 1)

\* lines 67-79.  A page is [present, cells, fault]: cells are the column-G
\* cells in row order, fault = k > 0 is an exception raised while row k is
\* examined.  Returns the weights and whether the except branch ran.
ExtractCartonWeights(page) ==
    IF ~page.present \/ page.fault \in 1..Len(page.cells)
    THEN [weights |-> <<>>, failed |-> TRUE]
    ELSE LET hits == SelectSeq(page.cells,
                               LAMBDA c : c.bold /\ IsNumber(c.value))
             collected == [i \in 1..Len(hits) |-> hits[i].value]
         IN  [weights |-> IF collected # <<>> THEN DropLast(collected)
                          ELSE collected,
              failed |-> FALSE]

WeightOffset == 35

\* lines 81-84
TotalPlus35(weights) == DecAdd(SumNumbers(weights), Dec(WeightOffset, 0))

Min(a, b) == IF a < b THEN a ELSE b

Max(a, b) == IF a > b THEN a ELSE b

\* lines 109-111
WeightsColumn(weights, n) ==
    SubSeq(weights, 1, Min(n, Len(weights)))
        \o [i \in 1..Max(0, n - Len(weights)) |-> Blank]

\* lines 101-112
DimDfMutant(data, weights) ==
    [i \in 1..Len(data) |->
        [BoxNumber |-> i - 1,
         CartonWeight |-> WeightsColumn(weights, Len(data))[i],
         Length |-> data[i][1], Width |-> data[i][2], Height |-> data[i][3]]]

DimDf(data, weights) ==
    IF data = <<>> THEN <<>>
    ELSE [i \in 1..Len(data) |->
            [BoxNumber |-> i,
             CartonWeight |-> WeightsColumn(weights, Len(data))[i],
             Length |-> data[i][1], Width |-> data[i][2],
             Height |-> data[i][3]]]

\* lines 185-198: the footer of the Box Dimensions sheet, summed from the
\* numeric cells of its column B
FooterTotal(sheet) ==
    DecAdd(SumNumbers([i \in 1..Len(sheet) |-> sheet[i].CartonWeight]),
           Dec(WeightOffset, 0))

\* ------------------------------------------------------------------ state

VARIABLES
    pc,                 \* the statement the script is at
    uploaded_file,      \* the workbook handed to the uploader
    df,                 \* the loaded table: [columns, rows]
    missing_cols,
    df_clean,
    pivot_table,
    total_qty,
    total_boxes,
    carton_weights,
    total_carton_weight_plus35,
    dimension_data,
    dim_df,
    wb,                 \* the output workbook
    st                  \* what the page shows

vars ==
    <<pc, uploaded_file, df, missing_cols, df_clean, pivot_table, total_qty,
      total_boxes, carton_weights, total_carton_weight_plus35, dimension_data,
      dim_df, wb, st>>

EmptyTable == [columns |-> <<>>, rows |-> <<>>]

EmptyWb ==
    [sheetnames |-> <<>>, contents |-> <<>>, pivot |-> EmptyPivot,
     dims |-> <<>>, contents_totals |-> <<>>, dims_total |-> <<>>]

EmptyPage ==
    [error |-> FALSE, missing_warning |-> <<>>, weights_warning |-> FALSE,
     download |-> FALSE, metrics |-> <<>>, shown |-> <<>>,
     preview_total |-> <<>>]

\* The state when a file has just been uploaded (line 19).
InitWith(files) ==
    /\ uploaded_file \in files
    /\ pc = "read_excel"
    /\ df = EmptyTable
    /\ missing_cols = <<>>
    /\ df_clean = <<>>
    /\ pivot_table = EmptyPivot
    /\ total_qty = 0
    /\ total_boxes = 0
    /\ carton_weights = <<>>
    /\ total_carton_weight_plus35 = Dec(0, 0)
    /\ dimension_data = <<>>
    /\ dim_df = <<>>
    /\ wb = EmptyWb
    /\ st = EmptyPage

\* ---------------------------------------------------------------- actions

\* lines 20-25
ReadExcel ==
    /\ pc = "read_excel"
    /\ IF uploaded_file.readable
       THEN /\ df' = [columns |-> StripColumns(uploaded_file.header),
                      rows |-> uploaded_file.rows]
            /\ pc' = "check_columns"
            /\ st' = st
       ELSE /\ st' = [st EXCEPT !.error = TRUE]
            /\ pc' = "read_error"
            /\ df' = df
    /\ UNCHANGED <<uploaded_file, missing_cols, df_clean, pivot_table,
                   total_qty, total_boxes, carton_weights,
                   total_carton_weight_plus35, dimension_data, dim_df, wb>>

\* lines 27-32
CheckColumns ==
    /\ pc = "check_columns"
    /\ missing_cols' = MissingCols(df.columns)
    /\ IF missing_cols' # <<>>
       THEN /\ st' = [st EXCEPT !.missing_warning = missing_cols']
            /\ pc' = "missing_columns"
       ELSE /\ st' = st
            /\ pc' = "box_contents"
    /\ UNCHANGED <<uploaded_file, df, df_clean, pivot_table, total_qty,
                   total_boxes, carton_weights, total_carton_weight_plus35,
                   dimension_data, dim_df, wb>>

\* lines 34-49
CleanBoxContents ==
    /\ pc = "box_contents"
    /\ df_clean' = BoxContents(df)
    /\ pc' = "pivot_table"
    /\ UNCHANGED <<uploaded_file, df, missing_cols, pivot_table, total_qty,
                   total_boxes, carton_weights, total_carton_weight_plus35,
                   dimension_data, dim_df, wb, st>>

\* lines 52-60
BuildPivotTable ==
    /\ pc = "pivot_table"
    /\ pivot_table' = PivotTable(df_clean)
    /\ pc' = "totals"
    /\ UNCHANGED <<uploaded_file, df, missing_cols, df_clean, total_qty,
                   total_boxes, carton_weights, total_carton_weight_plus35,
                   dimension_data, dim_df, wb, st>>

\* lines 63-64
Totals ==
    /\ pc = "totals"
    /\ total_qty' = SumQty(df_clean)
    /\ total_boxes' = NUnique(df_clean)
    /\ pc' = "carton_weights"
    /\ UNCHANGED <<uploaded_file, df, missing_cols, df_clean, pivot_table,
                   carton_weights, total_carton_weight_plus35, dimension_data,
                   dim_df, wb, st>>

\* lines 67-79
CartonWeights ==
    /\ pc = "carton_weights"
    /\ LET r == ExtractCartonWeights(uploaded_file.page)
       IN  /\ carton_weights' = r.weights
           /\ st' = [st EXCEPT !.weights_warning = r.failed]
    /\ pc' = "total_weight"
    /\ UNCHANGED <<uploaded_file, df, missing_cols, df_clean, pivot_table,
                   total_qty, total_boxes, total_carton_weight_plus35,
                   dimension_data, dim_df, wb>>

\* lines 81-84
TotalCartonWeight ==
    /\ pc = "total_weight"
    /\ total_carton_weight_plus35' = TotalPlus35(carton_weights)
    /\ pc' = "dimensions"
    /\ UNCHANGED <<uploaded_file, df, missing_cols, df_clean, pivot_table,
                   total_qty, total_boxes, carton_weights, dimension_data,
                   dim_df, wb, st>>

\* lines 87-98: an exception of line 95 or 97 is caught nowhere and ends the run
ExtractDimensions ==
    /\ pc = "dimensions"
    /\ LET r == ScanDimensions(CellsRowMajor(df.rows))
       IN  IF r.ok
           THEN /\ dimension_data' = r.data
                /\ pc' = "dim_df"
           ELSE /\ dimension_data' = dimension_data
                /\ pc' = "crashed"
    /\ UNCHANGED <<uploaded_file, df, missing_cols, df_clean, pivot_table,
                   total_qty, total_boxes, carton_weights,
                   total_carton_weight_plus35, dim_df, wb, st>>

\* lines 101-112
BoxDimensions ==
    /\ pc = "dim_df"
    /\ dim_df' = DimDf(dimension_data, carton_weights)
    /\ pc' = "write_excel"
    /\ UNCHANGED <<uploaded_file, df, missing_cols, df_clean, pivot_table,
                   total_qty, total_boxes, carton_weights,
                   total_carton_weight_plus35, dimension_data, wb, st>>

\* lines 115-120
WriteExcel ==
    /\ pc = "write_excel"
    /\ wb' = [wb EXCEPT
                !.sheetnames = <<"Box Contents", "Pivot Table">>
                    \o (IF dim_df # <<>> THEN <<"Box Dimensions">> ELSE <<>>),
                !.contents = df_clean,
                !.pivot = pivot_table,
                !.dims = dim_df]
    /\ pc' = "format_excel"
    /\ UNCHANGED <<uploaded_file, df, missing_cols, df_clean, pivot_table,
                   total_qty, total_boxes, carton_weights,
                   total_carton_weight_plus35, dimension_data, dim_df, st>>

\* lines 122-215: styling changes no value; the two footers are written
FormatExcel ==
    /\ pc = "format_excel"
    /\ wb' = [wb EXCEPT
                !.contents_totals = <<total_qty, total_boxes>>,
                !.dims_total =
                    IF "Box Dimensions" \in Range(wb.sheetnames)
                    THEN <<FooterTotal(wb.dims)>>
                    ELSE <<>>]
    /\ pc' = "download"
    /\ UNCHANGED <<uploaded_file, df, missing_cols, df_clean, pivot_table,
                   total_qty, total_boxes, carton_weights,
                   total_carton_weight_plus35, dimension_data, dim_df, st>>

\* lines 218-223
Download ==
    /\ pc = "download"
    /\ st' = [st EXCEPT !.download = TRUE]
    /\ pc' = "preview"
    /\ UNCHANGED <<uploaded_file, df, missing_cols, df_clean, pivot_table,
                   total_qty, total_boxes, carton_weights,
                   total_carton_weight_plus35, dimension_data, dim_df, wb>>

\* lines 226-248
Preview ==
    /\ pc = "preview"
    /\ st' = [st EXCEPT
                !.metrics =
                    <<total_qty, total_boxes, total_carton_weight_plus35>>,
                !.shown = <<"Box Contents", "Pivot Table">>
                    \o (IF dim_df # <<>> THEN <<"Box Dimensions">> ELSE <<>>),
                !.preview_total =
                    IF dim_df # <<>> THEN <<total_carton_weight_plus35>>
                    ELSE <<>>]
    /\ pc' = "done"
    /\ UNCHANGED <<uploaded_file, df, missing_cols, df_clean, pivot_table,
                   total_qty, total_boxes, carton_weights,
                   total_carton_weight_plus35, dimension_data, dim_df, wb>>

Next ==
    \/ ReadExcel
    \/ CheckColumns
    \/ CleanBoxContents
    \/ BuildPivotTable
    \/ Totals
    \/ CartonWeights
    \/ TotalCartonWeight
    \/ ExtractDimensions
    \/ BoxDimensions
    \/ WriteExcel
    \/ FormatExcel
    \/ Download
    \/ Preview

\* ------------------------------------------------------ uploaded workbooks

MaxRows == 2
MaxPageRows == 3
MaxDims == 2

\* every sequence over S of length at most n
SeqsUpTo(S, n) == UNION {[1..k -> S] : k \in 0..n}

Page(cells, fault) == [present |-> TRUE, cells |-> cells, fault |-> fault]

NoPage == [present |-> FALSE, cells |-> <<>>, fault |-> 0]

G(bold, value) == [bold |-> bold, value |-> value]

Workbook(header, rows, page) ==
    [readable |-> TRUE, header |-> header, rows |-> rows, page |-> page]

CorruptFile ==
    [readable |-> FALSE, header |-> <<>>, rows |-> <<>>, page |-> NoPage]

\* The header of the export, as typed in the template: the required columns
\* in another order and with stray blanks, then two free-text columns.
Header5 ==
    <<T_BoxX, <<" ">> \o T_UPC, T_SkuUnits \o <<" ">>,
      <<"D", "i", "m", "s">>, <<"N", "o", "t", "e", "s">>>>

Row5(upc, box, units, c4, c5) == <<box, upc, units, c4, c5>>

PlainRow(upc, box, units) == Row5(upc, box, units, NoneCell, NoneCell)

Dim1 == <<"1", "2", ".", "5", "0", "X", "3", ".", "2", "5", "X", "4", ".", "0", "0">>
Dim2 == <<"8", ".", "5", "X", "1", "1", ".", "0", "X", "2", ".", "2", "5">>
Dim3 == <<"1", ".", "5", "X", "2", ".", "5", "X", "3", ".", "5">>
Dim4 == <<"1", "0", "0", ".", "0", "X", "2", "0", ".", "0", "X", "7", ".", "7", "5">>
DimTexts == <<Dim1, Dim2, Dim3, Dim4>>

T_1 == <<"1">>
T_2 == <<"2">>
T_5 == <<"5">>
T_abc == <<"a", "b", "c">>

\* a sheet with three bold weights and a bold subtotal
Page3 ==
    Page(<<G(TRUE, IntCell(10)), G(FALSE, TextCell(T_abc)),
           G(TRUE, FloatCell(125, 1)), G(TRUE, IntCell(20)),
           G(TRUE, FloatCell(425, 1))>>, 0)

TwoRows ==
    <<Row5(TextCell(T_1), IntCell(1), IntCell(3), TextCell(Dim1), NoneCell),
      Row5(TextCell(T_2), IntCell(1), IntCell(4), NoneCell, TextCell(Dim2))>>

\* One workbook for every way a run can go.
BaseFiles ==
    {CorruptFile,
     Workbook(<<T_UPC, T_BoxX>>, <<<<IntCell(1), IntCell(1)>>>>, Page3),
     Workbook(Header5, TwoRows, Page3),
     Workbook(Header5, TwoRows, NoPage),
     Workbook(Header5, TwoRows, [Page3 EXCEPT !.fault = 3]),
     Workbook(Header5,
              <<Row5(TextCell(T_1), IntCell(1), IntCell(3),
                     TextCell(Dim1 \o <<" ", "i", "n">>), NoneCell)>>,
              Page3),
     Workbook(Header5,
              <<Row5(TextCell(T_1), IntCell(1), IntCell(3),
                     TextCell(Dim1 \o <<" ", "i", "n">>), NoneCell)>>,
              NoPage)}

\* --- headers: each required column absent, exact, padded or misspelt
NameChoices(name, wrong) ==
    {<<>>, <<name>>, <<<<" ">> \o name \o <<" ", " ">>>>, <<wrong>>}

Reverse(s) == [i \in 1..Len(s) |-> s[Len(s) + 1 - i]]

Headers ==
    LET hs == {a \o b \o c \o <<<<"N", "o", "t", "e", "s">>>> :
                  a \in NameChoices(T_UPC, <<"u", "p", "c">>),
                  b \in NameChoices(T_BoxX, <<"B", "o", "x", "X">>),
                  c \in NameChoices(T_SkuUnits, <<"S", "k", "u">>)}
    IN  hs \cup {Reverse(h) : h \in hs}

NumberedRows(h, n) == [k \in 1..n |-> [i \in 1..Len(h) |-> IntCell(i + k)]]

SchemaFiles ==
    {Workbook(h, NumberedRows(h, n), Page3) : h \in Headers, n \in 0..MaxRows}

\* --- identifiers
T_12digits == <<"1", "2", "3", "4", "5", "6", "7", "8", "9", "0", "1", "0">>

UpcCells ==
    {TextCell(<<"1", "2", "3", ".", "0">>),
     TextCell(<<"4", "5", "6", "0", "+">>),
     TextCell(T_12digits),
     TextCell(T_12digits \o <<"3">>),
     TextCell(<<"A", "B", "C">>),
     TextCell(<<"1", "2", ".", "0", "+">>),
     TextCell(<<"+", "7", "+", "8", ".", "0">>),
     FloatCell(1230, 1),
     IntCell(7),
     NoneCell}

UpcFiles ==
    {Workbook(Header5, rows, Page3) :
        rows \in SeqsUpTo({PlainRow(u, IntCell(1), IntCell(1)) : u \in UpcCells},
                          MaxRows)}

\* --- quantities
UnitsCells ==
    {NoneCell, IntCell(5), FloatCell(27, 1), FloatCell(-27, 1),
     TextCell(T_5), TextCell(T_abc), TextCell(<<"2", ".", "7">>),
     TextCell(<<"-", "2", ".", "7">>)}

UnitsFiles ==
    {Workbook(Header5, rows, Page3) :
        rows \in SeqsUpTo({PlainRow(u, IntCell(1), q) :
                              u \in {NoneCell, TextCell(T_1)}, q \in UnitsCells},
                          MaxRows)}

\* --- groups
GroupFiles ==
    {Workbook(Header5, rows, Page3) :
        rows \in SeqsUpTo({PlainRow(u, b, q) :
                              u \in {TextCell(T_1), IntCell(2)},
                              b \in {NoneCell, IntCell(1), IntCell(2)},
                              q \in {IntCell(0), IntCell(1), IntCell(2)}},
                          MaxRows)}

\* --- auxiliary sheets and dimension rows
PageCells ==
    {G(TRUE, IntCell(10)), G(TRUE, FloatCell(125, 1)), G(FALSE, IntCell(20)),
     G(TRUE, TextCell(T_abc)), G(TRUE, BoolCell(TRUE))}

Pages ==
    {NoPage} \cup
    UNION {{Page(cells, fault) : fault \in 0..Len(cells)} :
              cells \in SeqsUpTo(PageCells, MaxPageRows)}

DimRows(n) ==
    [k \in 1..n |->
        Row5(IntCell(k), IntCell(k), IntCell(1), TextCell(DimTexts[k]), NoneCell)]

WeightFiles ==
    {Workbook(Header5, DimRows(n), page) : n \in 0..MaxDims, page \in Pages}

\* --- free-text cells
DimCells ==
    {NoneCell, TextCell(Dim1), TextCell(Dim3 \o <<" ">>),
     TextCell(<<"1", "2", ".", "5", "X", "3", ".", "2", "5">>),
     TextCell(T_abc), TextCell(Dim3 \o <<" ", "i", "n">>)}

DimFiles ==
    {Workbook(Header5, rows, Page3) :
        rows \in SeqsUpTo({Row5(TextCell(T_1), IntCell(1), IntCell(1), c4, c5) :
                              c4 \in DimCells, c5 \in DimCells},
                          MaxRows)}

\* ---------------------------------------------------------- specifications

Init == InitWith(BaseFiles \cup SchemaFiles)
Spec == Init /\ [][Next]_vars

InitUpc == InitWith(BaseFiles \cup UpcFiles)
SpecUpc == InitUpc /\ [][Next]_vars

InitUnits == InitWith(BaseFiles \cup UnitsFiles)
SpecUnits == InitUnits /\ [][Next]_vars

InitGroups == InitWith(BaseFiles \cup GroupFiles)
SpecGroups == InitGroups /\ [][Next]_vars

InitWeights == InitWith(BaseFiles \cup WeightFiles)
SpecWeights == InitWeights /\ [][Next]_vars

InitDims == InitWith(BaseFiles \cup DimFiles)
SpecDims == InitDims /\ [][Next]_vars

\* ----------------------------------------------------------------- claims

Stages ==
    <<"read_excel", "check_columns", "box_contents", "pivot_table", "totals",
      "carton_weights", "total_weight", "dimensions", "dim_df", "write_excel",
      "format_excel", "download", "preview", "done">>

StageNo(p) == CHOOSE i \in 1..Len(Stages) : Stages[i] = p

\* the statements of stage p have run in this state
Completed(p) ==
    \/ pc \in Range(Stages) /\ StageNo(pc) > StageNo(p)
    \/ pc = "crashed" /\ StageNo(p) < StageNo("dimensions")

\* the raw cell of a loaded row under a required column
RawCell(i, name) == df.rows[i][ColIndex(df.columns, name)]

RECURSIVE SumOver(_, _)
\* the sum of the numeric cells of f over the set D
SumOver(f, D) ==
    IF D = {} THEN 0
    ELSE LET x == CHOOSE y \in D : TRUE
         IN  (IF f[x].kind = "int" THEN f[x].n ELSE 0) + SumOver(f, D \ {x})

NonNegativeIntegerUnits ==
    \A i \in 1..Len(df.rows) :
        LET q == RawCell(i, T_SkuUnits)
        IN  q.kind = "none" \/ (q.kind = "int" /\ q.n >= 0)

\* C1: for a table whose quantities are non-negative integers, the non-blank
\* pivot cells add up to total_qty and total_boxes is the number of distinct
\* box numbers of the cleaned records, rows with a null Box X included.
C1_PivotMatchesTotals ==
    (Completed("totals") /\ NonNegativeIntegerUnits) =>
        /\ SumOver(pivot_table.cell, DOMAIN pivot_table.cell) = total_qty
        /\ total_boxes =
              Cardinality({df_clean[k].BoxNumber : k \in 1..Len(df_clean)}
                              \ {NoneCell})

\* the required columns that the trimmed header lacks, in required order
AbsentRequired ==
    LET trimmed == {Strip(uploaded_file.header[i]) :
                       i \in 1..Len(uploaded_file.header)}
        lacks(name) == IF name \in trimmed THEN <<>> ELSE <<name>>
    IN  lacks(T_UPC) \o lacks(T_BoxX) \o lacks(T_SkuUnits)

\* C2: when a required column is absent from the trimmed header the run stops
\* at the schema check: the missing list is exactly the absent required
\* columns in required order, and no workbook, download, totals or preview
\* is ever produced.
C2_MissingColumnsStop ==
    (uploaded_file.readable /\ AbsentRequired # <<>>) =>
        /\ pc \in {"read_excel", "check_columns", "missing_columns"}
        /\ pc = "missing_columns" =>
              /\ missing_cols = AbsentRequired
              /\ st.missing_warning = AbsentRequired
        /\ df_clean = <<>> /\ pivot_table = EmptyPivot
        /\ total_qty = 0 /\ total_boxes = 0
        /\ wb = EmptyWb
        /\ ~st.download /\ st.metrics = <<>> /\ st.shown = <<>>

C2_Witness ==
    /\ pc = "missing_columns"
    /\ missing_cols = <<T_SkuUnits>>
    /\ T_UPC \in Range(df.columns) /\ T_UPC \notin Range(uploaded_file.header)

AuxFailure ==
    /\ uploaded_file.readable
    /\ \/ ~uploaded_file.page.present
       \/ uploaded_file.page.fault \in 1..Len(uploaded_file.page.cells)

\* C3: when the auxiliary sheet is missing or its scan raises, the weight
\* sequence is empty and the main pipeline still runs to completion, with
\* the Box Contents and Pivot Table sheets and both totals produced.
C3_AuxFailureStillCompletes ==
    (AuxFailure /\ Completed("carton_weights")) =>
        /\ carton_weights = <<>>
        /\ pc # "crashed"
        /\ pc = "done" =>
              /\ wb.contents = BoxContents(df)
              /\ wb.pivot = PivotTable(wb.contents)
              /\ wb.contents_totals = <<SumQty(wb.contents), NUnique(wb.contents)>>

RECURSIVE BoldNumericValues(_)
\* the values of the cells that are bold and hold an int or a float (a bool
\* is an int to the code), in row order
BoldNumericValues(cells) ==
    IF cells = <<>> THEN <<>>
    ELSE (IF Head(cells).bold /\ Head(cells).value.kind \in {"int", "float", "bool"}
          THEN <<Head(cells).value>> ELSE <<>>)
         \o BoldNumericValues(Tail(cells))

ScanRan ==
    /\ Completed("carton_weights")
    /\ uploaded_file.page.present
    /\ uploaded_file.page.fault = 0

\* C4: the weight sequence is the bold numeric column-G values in row order
\* without the last one, whatever it is; no qualifying cell (and a single
\* one) gives the empty sequence, and nothing is raised.
C4_WeightsDropLast ==
    ScanRan =>
        LET q == BoldNumericValues(uploaded_file.page.cells)
        IN  /\ Len(carton_weights) = Max(0, Len(q) - 1)
            /\ \A i \in 1..Len(carton_weights) : carton_weights[i] = q[i]
            /\ ~st.weights_warning

C4_Witness ==
    /\ ScanRan
    /\ LET q == BoldNumericValues(uploaded_file.page.cells)
       IN  /\ Len(q) = 3 /\ q[1] # q[2] /\ q[3] # q[2]
           /\ carton_weights = <<q[1], q[2]>>

T_123dot0 == <<"1", "2", "3", ".", "0">>
T_4560plus == <<"4", "5", "6", "0", "+">>
T_000000000123 == <<"0", "0", "0", "0", "0", "0", "0", "0", "0", "1", "2", "3">>
T_000000000456 == <<"0", "0", "0", "0", "0", "0", "0", "0", "0", "4", "5", "6">>
T_000000004560 == <<"0", "0", "0", "0", "0", "0", "0", "0", "4", "5", "6", "0">>

\* the text of the raw identifier of the k-th cleaned record
RawUpcText(k) == CellText(RawCell(df_clean[k].index, T_UPC))

\* C5 (as amended): normalisation maps "123.0" to "000000000123", maps
\* "4560+" to "000000004560", and leaves a text of 12 digits unchanged.
C5_Examples ==
    Completed("box_contents") =>
        \A k \in 1..Len(df_clean) :
            /\ RawUpcText(k) = T_123dot0 => df_clean[k].UPC = T_000000000123
            /\ RawUpcText(k) = T_4560plus => df_clean[k].UPC = T_000000004560
            /\ (Len(RawUpcText(k)) = 12 /\ AllDigits(RawUpcText(k))) =>
                  df_clean[k].UPC = RawUpcText(k)

\* C5 (as claimed): the same, with "4560+" mapped to "000000000456".
C5_ExamplesAsClaimed ==
    Completed("box_contents") =>
        \A k \in 1..Len(df_clean) :
            /\ RawUpcText(k) = T_123dot0 => df_clean[k].UPC = T_000000000123
            /\ RawUpcText(k) = T_4560plus => df_clean[k].UPC = T_000000000456
            /\ (Len(RawUpcText(k)) = 12 /\ AllDigits(RawUpcText(k))) =>
                  df_clean[k].UPC = RawUpcText(k)

C5_Witness ==
    /\ Completed("box_contents")
    /\ \E k \in 1..Len(df_clean) :
          RawUpcText(k) = T_4560plus /\ df_clean[k].UPC = T_000000004560

\* the raw text without one trailing ".0" and then without its "+" characters
CoreText(raw) ==
    LET body == IF Len(raw) >= 2 /\ raw[Len(raw) - 1] = "." /\ raw[Len(raw)] = "0"
                THEN SubSeq(raw, 1, Len(raw) - 2)
                ELSE raw
    IN  SelectSeq(body, LAMBDA c : c # "+")

\* C6 (as amended): every identifier is at least 12 characters long and holds
\* no "+"; it is exactly 12 characters, all digits, whenever the raw text
\* without a trailing ".0" and then without "+" is at most 12 digits.
C6_IdentifierShape ==
    Completed("box_contents") =>
        \A k \in 1..Len(df_clean) :
            /\ Len(df_clean[k].UPC) >= 12
            /\ "+" \notin Range(df_clean[k].UPC)
            /\ (Len(CoreText(RawUpcText(k))) <= 12
                    /\ AllDigits(CoreText(RawUpcText(k)))) =>
                  /\ Len(df_clean[k].UPC) = 12
                  /\ AllDigits(df_clean[k].UPC)

\* C6 (as claimed): every identifier is exactly 12 characters, digits only.
C6_AlwaysTwelveDigits ==
    Completed("box_contents") =>
        \A k \in 1..Len(df_clean) :
            Len(df_clean[k].UPC) = 12 /\ AllDigits(df_clean[k].UPC)

C6_Witness ==
    /\ Completed("box_contents")
    /\ \E k \in 1..Len(df_clean) :
          /\ Len(RawUpcText(k)) = 13 /\ AllDigits(RawUpcText(k))
          /\ df_clean[k].UPC = RawUpcText(k)

\* k is d truncated towards zero
IsTruncOf(k, d) ==
    LET p == Pow10(d.e)
    IN  IF d.m >= 0 THEN k * p <= d.m /\ d.m < (k + 1) * p
        ELSE (k - 1) * p < d.m /\ d.m <= k * p

\* C7: a row with a null Sku Units or a null UPC is dropped, not kept with
\* quantity 0; a number becomes that number truncated to an integer ("5"
\* becomes 5); a text that is no number ("abc") keeps its row with quantity
\* 0; the rows kept stay in input order.
C7_QuantityCoercion ==
    Completed("box_contents") =>
        /\ {df_clean[k].index : k \in 1..Len(df_clean)} =
              {i \in 1..Len(df.rows) :
                  RawCell(i, T_UPC) # NoneCell /\ RawCell(i, T_SkuUnits) # NoneCell}
        /\ \A k \in 1..(Len(df_clean) - 1) :
              df_clean[k].index < df_clean[k + 1].index
        /\ \A k \in 1..Len(df_clean) :
              LET q == RawCell(df_clean[k].index, T_SkuUnits)
                  n == df_clean[k].Qty
              IN  /\ q.kind = "int" => n = q.n
                  /\ q.kind = "float" => IsTruncOf(n, q.d)
                  /\ (q.kind = "str" /\ q.s = T_5) => n = 5
                  /\ (q.kind = "str" /\ q.s = T_abc) => n = 0
                  /\ (q.kind = "str" /\ IsDecimalText(q.s)) =>
                        IsTruncOf(n, DecimalOf(q.s))
                  /\ (q.kind = "str" /\ ~IsDecimalText(q.s)) => n = 0

C7_Witness ==
    /\ Completed("box_contents")
    /\ Len(df.rows) = 2 /\ Len(df_clean) = 1
    /\ RawCell(1, T_UPC) # NoneCell /\ RawCell(1, T_SkuUnits) = NoneCell
    /\ df_clean[1].index = 2
    /\ RawCell(2, T_SkuUnits) = TextCell(T_abc) /\ df_clean[1].Qty = 0

RECURSIVE CountMatches(_)
CountMatches(cells) ==
    IF cells = <<>> THEN 0
    ELSE (IF DimensionMatch(CellText(Head(cells))) THEN 1 ELSE 0)
         + CountMatches(Tail(cells))

\* C8: the dimension extractor ends normally on every table and returns one
\* triple per cell that matches the pattern, a cell matched only in a prefix
\* of its text included.
C8_OneTriplePerMatch ==
    (Completed("dimensions") \/ pc = "crashed") =>
        /\ pc # "crashed"
        /\ Len(dimension_data) = CountMatches(CellsRowMajor(df.rows))

\* C9: the total shown is the sum of the whole weight sequence plus 35, and
\* the footer of the Box Dimensions sheet equals the metric and the preview
\* total, also when there are more weights than dimension triples.
C9_FooterEqualsMetric ==
    pc = "done" =>
        /\ st.metrics[3] = DecAdd(SumNumbers(carton_weights), Dec(35, 0))
        /\ "Box Dimensions" \in Range(wb.sheetnames) =>
              /\ wb.dims_total = <<st.metrics[3]>>
              /\ st.preview_total = <<st.metrics[3]>>

\* C10: with N triples and M weights, N = 0 gives no Box Dimensions table or
\* sheet; N > 0 gives N rows, row i with box number i, the i-th triple and
\* the i-th weight if i <= M and a blank otherwise.
C10_DimensionTable ==
    Completed("dim_df") =>
        LET n == Len(dimension_data)
            m == Len(carton_weights)
        IN  /\ Len(dim_df) = n
            /\ \A i \in 1..Len(dim_df) :
                  /\ dim_df[i].BoxNumber = i
                  /\ <<dim_df[i].Length, dim_df[i].Width, dim_df[i].Height>>
                        = dimension_data[i]
                  /\ dim_df[i].CartonWeight =
                        IF i <= m THEN carton_weights[i] ELSE TextCell(<<>>)
            /\ Completed("write_excel") =>
                  /\ ("Box Dimensions" \in Range(wb.sheetnames)) = (n > 0)
                  /\ wb.dims = dim_df
            /\ pc = "done" => ("Box Dimensions" \in Range(st.shown)) = (n > 0)

C10_Witness ==
    /\ pc = "done"
    /\ Len(dimension_data) = 2 /\ Len(carton_weights) = 1
    /\ dim_df[1].CartonWeight = carton_weights[1]
    /\ dim_df[2].CartonWeight = TextCell(<<>>)

====
